---- MODULE Spec2Model ----
(***************************************************************************)
(* A model of zktreeutil.py: depth-first traversal of a ZooKeeper tree,    *)
(* the three conflict policies, copy, export and import.                   *)
(*                                                                         *)
(* Strings that the program takes apart (paths, connect strings) are       *)
(* sequences of one-character strings, so that strip, rstrip, find and     *)
(* concatenation are computed as the code computes them.  Payloads and user*)
(* answers are atoms.                                                      *)
(***************************************************************************)
EXTENDS Integers, Sequences, FiniteSets, TLC

\* ------------------------------------------------------------------ bounds
\* Deepest node the remote trees of the model may hold (longer paths are
\* beyond the modelled universe).
MaxDepth == 4
\* Number of external deletions on the source tree during one run.
MaxDeletes == 1

\* ----------------------------------------------------------------- strings
\* A variable that holds nothing yet.
None == << >>
SLASH == "/"

\* Code point of the characters that occur in the model's strings.
Ord(c) ==
  CASE c = "/" -> 47
    [] c = "1" -> 49
    [] c = "2" -> 50
    [] c = "a" -> 97
    [] c = "b" -> 98

RECURSIVE LStripSlash(_)
\* str.lstrip('/')
LStripSlash(s) ==
  IF s # << >> /\ Head(s) = SLASH THEN LStripSlash(Tail(s)) ELSE s

RECURSIVE RStripSlash(_)
\* str.rstrip('/')
RStripSlash(s) ==
  IF s # << >> /\ s[Len(s)] = SLASH
  THEN RStripSlash(SubSeq(s, 1, Len(s) - 1))
  ELSE s

\* str.strip('/')
StripSlash(s) == LStripSlash(RStripSlash(s))

RECURSIVE JoinRel(_, _)
\* The loop of join_paths: append '/' + rel_path for each relative path.
JoinRel(result_path, rel_paths) ==
  IF rel_paths = << >> THEN result_path
  ELSE JoinRel(result_path \o <<SLASH>> \o Head(rel_paths), Tail(rel_paths))

\* join_paths(base_path, *relative_paths)
join_paths(base_path, relative_paths) ==
  JoinRel(RStripSlash(base_path),
          [i \in 1..Len(relative_paths) |-> StripSlash(relative_paths[i])])

\* string.find(zk_string, '/'), 1-based; 0 stands for Python's -1.
FindSlash(s) ==
  IF \E i \in 1..Len(s) : s[i] = SLASH
  THEN CHOOSE i \in 1..Len(s) :
         s[i] = SLASH /\ \A j \in 1..(i - 1) : s[j] # SLASH
  ELSE 0

\* parse_zk_string: <<ok, host, path>>; ok = FALSE is the raised Exception.
parse_zk_string(zk_string) ==
  LET idx == FindSlash(zk_string)
  IN IF idx = 0 THEN <<FALSE, << >>, << >> >>
     ELSE <<TRUE, SubSeq(zk_string, 1, idx - 1),
                  SubSeq(zk_string, idx, Len(zk_string))>>

RECURSIVE StrLess(_, _)
\* s < t in the order json.dumps(sort_keys=True) sorts the keys by.
StrLess(s, t) ==
  IF t = << >> THEN FALSE
  ELSE IF s = << >> THEN TRUE
  ELSE IF Head(s) # Head(t) THEN Ord(Head(s)) < Ord(Head(t))
  ELSE StrLess(Tail(s), Tail(t))

RECURSIVE SortKeys(_)
\* The keys of a dict in sorted order.
SortKeys(S) ==
  IF S = {} THEN << >>
  ELSE LET m == CHOOSE x \in S : \A y \in S \ {x} : StrLess(x, y)
       IN <<m>> \o SortKeys(S \ {m})

RECURSIVE Perms(_)
\* Every order in which a set of names can be enumerated.
Perms(S) ==
  IF S = {} THEN { << >> }
  ELSE UNION { { <<x>> \o p : p \in Perms(S \ {x}) } : x \in S }

\* ------------------------------------------------------ the remote service
\* A tree is a function from the paths of its nodes to their payloads.  The
\* client normalises a path before it is sent: empty segments (doubled or
\* trailing slashes) are dropped.
RECURSIVE Segments(_, _)
Segments(s, cur) ==
  IF s = << >> THEN (IF cur = << >> THEN << >> ELSE <<cur>>)
  ELSE IF Head(s) = SLASH
       THEN (IF cur = << >> THEN << >> ELSE <<cur>>) \o Segments(Tail(s), << >>)
       ELSE Segments(Tail(s), Append(cur, Head(s)))

RECURSIVE FromSegments(_)
FromSegments(segs) ==
  IF segs = << >> THEN << >>
  ELSE <<SLASH>> \o Head(segs) \o FromSegments(Tail(segs))

normpath(path) ==
  LET segs == Segments(path, << >>)
  IN IF segs = << >> THEN <<SLASH>> ELSE FromSegments(segs)

Depth(path) == Len(Segments(path, << >>))

\* The proper ancestors of a normalised path, the root included.
Ancestors(path) ==
  LET segs == Segments(path, << >>)
  IN { normpath(FromSegments(SubSeq(segs, 1, k))) : k \in 0..(Len(segs) - 1) }

ParentOf(path) ==
  LET segs == Segments(path, << >>)
  IN normpath(FromSegments(SubSeq(segs, 1, Len(segs) - 1)))

LastName(path) ==
  LET segs == Segments(path, << >>) IN segs[Len(segs)]

\* Session.exists(path)
zk_exists(tree, path) == normpath(path) \in DOMAIN tree

\* Session.get_children(path): the names of the node's children.
zk_get_children(tree, path) ==
  { LastName(q) : q \in { r \in DOMAIN tree :
                            r # <<SLASH>> /\ ParentOf(r) = normpath(path) } }

\* Session.set(path, data)
zk_set(tree, path, data) == [tree EXCEPT ![normpath(path)] = data]

\* Session.create(path, data, makepath=True): missing ancestors are created
\* with an empty payload.
zk_create(tree, path, data) ==
  LET p == normpath(path)
      missing == Ancestors(p) \ DOMAIN tree
  IN [q \in DOMAIN tree \cup missing \cup {p} |->
        IF q = p THEN data
        ELSE IF q \in DOMAIN tree THEN tree[q] ELSE ""]


\* ---------------------------------------------------------------- Resolve
NO_CLOBBER == 0
INTERACTIVE == 1
OVERWRITE == 2
Resolves == {NO_CLOBBER, INTERACTIVE, OVERWRITE}

\* string.lower on the answers the model's user can type.
Lower(response) ==
  CASE response = "Y" -> "y"
    [] response = "N" -> "n"
    [] response = "Yes" -> "yes"
    [] OTHER -> response

Answers == {"y", "Y", "n", "N", "Yes", ""}

\* Variant: the final else branch writes as the OVERWRITE branch does.
OnExisting_clobber(r) ==
  IF r = INTERACTIVE THEN "prompt"
  ELSE "set"

\* Variant: the OVERWRITE branch logs and leaves the node alone.
OnExisting_noset(r) ==
  IF r = INTERACTIVE THEN "prompt"
  ELSE "skip"

\* What process_znode_write_to_zk does with a destination that exists
\* (lines 171-187).
OnExisting(r) ==
  IF r = INTERACTIVE THEN "prompt"
  ELSE IF r = OVERWRITE THEN "set"
  ELSE "skip"

\* The condition of the while loop around raw_input.
KeepPrompting(response) == Lower(response) # "y" /\ Lower(response) # "n"

\* The test that follows the loop: does the answer overwrite?
AnswerOverwrites(response) == response = "y"

\* ------------------------------------------------------------- documents
\* json.dumps of a payload, and str() of a loaded JSON value.
JsonOfData(data) == <<"string", data>>

PyStr(value) ==
  IF value[1] = "string" THEN value[2] ELSE "None"

\* process_znode_write_dict: the dict after the three assignments.
write_dict(dict, znode) ==
  [k \in DOMAIN dict \cup {znode.path} |->
     IF k = znode.path THEN [data |-> znode.data, stat |-> znode.stat]
     ELSE dict[k]]

\* Variant: the keys are not sorted; they come in the reverse order here.
json_dumps_unsorted(dict) ==
  LET keys == SortKeys(DOMAIN dict)
      n == Len(keys)
  IN [i \in 1..n |->
        <<keys[n + 1 - i], [data |-> JsonOfData(dict[keys[n + 1 - i]].data),
                            stat |-> dict[keys[n + 1 - i]].stat]>>]

\* json.dumps(znode_dict, sort_keys=True): the entries in key order.
json_dumps(dict) ==
  LET keys == SortKeys(DOMAIN dict)
  IN [i \in 1..Len(keys) |->
        <<keys[i], [data |-> JsonOfData(dict[keys[i]].data),
                    stat |-> dict[keys[i]].stat]>>]

\* json.loads of such a document: a dict again.
json_loads(document) ==
  [k \in { document[i][1] : i \in 1..Len(document) } |->
     LET i == CHOOSE j \in 1..Len(document) : document[j][1] = k
     IN document[i][2]]


\* ------------------------------------------------------------------ state
VARIABLES
  zk,              \* host -> tree: the service instances
  action,          \* self.option.action
  resolve,         \* self.option.resolve
  argv,            \* self.args: the connect strings
  file,            \* the content of the file at self.option.file_loc
  pc,              \* where the run is
  source_zk,       \* host of the source session
  source_zk_path,
  dest_zk,         \* host of the destination session
  dest_zk_path,
  cur,             \* the path argument of the running traverse_zk_tree call
  stack,           \* the pending for loops of the enclosing calls
  znode,           \* the ZNode handed to process_znode
  response,        \* the last answer read by raw_input
  znode_dict,      \* the dict of run_export / run_import
  pending,         \* keys of znode_dict that run_import has not reached
  visited,         \* history: the znodes process_znode was called on
  examined,        \* history: the paths passed to dest_zk_client.exists
  writes,          \* history: the create and set calls on the destination
  zk0,             \* history: the instances when the action started
  deletes,         \* history: external deletions so far
  missed,          \* history: the path whose read found no node
  exported         \* history: <<tree, root>> a round trip has exported

vars == <<zk, action, resolve, argv, file, pc, source_zk, source_zk_path,
          dest_zk, dest_zk_path, cur, stack, znode, response, znode_dict,
          pending, visited, examined, writes, zk0, deletes, missed, exported>>

\* -------------------------------------------------------- inputs of a run
ROOT == <<"/">>
HOST1 == <<"1">>
HOST2 == <<"2">>
Hosts == {HOST1, HOST2}

EmptyTree == [p \in {ROOT} |-> ""]

\* The largest source tree; a source tree is any part of it closed under
\* parents.
SrcFull ==
  (ROOT :> "0") @@ (<<"/", "a">> :> "1") @@ (<<"/", "a", "/", "b">> :> "2")
  @@ (<<"/", "b">> :> "3") @@ (<<"/", "a", "/", "a">> :> "4")

\* The largest initial destination tree.
DstFull ==
  (ROOT :> "") @@ (<<"/", "a">> :> "old") @@ (<<"/", "a", "/", "a">> :> "old")
  @@ (<<"/", "b">> :> "old") @@ (<<"/", "b", "/", "a">> :> "old")
  @@ (<<"/", "b", "/", "a", "/", "b">> :> "old")

DstSeeds == { <<"/", "a", "/", "a">>, <<"/", "b", "/", "a", "/", "b">> }

TreesOf(full) ==
  { [p \in S |-> full[p]] :
      S \in { T \in SUBSET DOMAIN full :
                ROOT \in T /\ \A p \in T : Ancestors(p) \subseteq T } }

SrcTrees == TreesOf(SrcFull)

DstTrees ==
  { [p \in S |-> DstFull[p]] :
      S \in { {ROOT} \cup UNION { Ancestors(q) \cup {q} : q \in Q } :
                Q \in SUBSET DstSeeds } }

SrcPaths == { ROOT, <<"/", "a">>, <<"/", "b">> }
DstPaths == { ROOT, <<"/", "a">>, <<"/", "b", "/">> }

\* Connect strings; the last of SrcArgs has no '/'.
SrcArgs == { HOST1 \o p : p \in SrcPaths } \cup { HOST1 }
DstArgs == { h \o p : h \in Hosts, p \in DstPaths }

\* Snapshot documents offered to import: entries under DocKeys, at most one
\* of them lacking its 'stat' or its 'data'.
DocKeys == { <<"/", "a">>, <<"/", "a", "/">>, <<"/", "a", "/", "b">> }

DocData ==
  (<<"/", "a">> :> "1") @@ (<<"/", "a", "/">> :> "5")
  @@ (<<"/", "a", "/", "b">> :> "2")

DocEntry(k, shape) ==
  CASE shape = "ok" -> [data |-> JsonOfData(DocData[k]), stat |-> "stat"]
    [] shape = "nostat" -> [data |-> JsonOfData(DocData[k])]
    [] shape = "nodata" -> [stat |-> "stat"]

Documents ==
  { LET keys == SortKeys(K)
    IN [i \in 1..Len(keys) |-> <<keys[i], DocEntry(keys[i], sh[keys[i]])>>] :
      K \in SUBSET DocKeys,
      sh \in { f \in [DocKeys -> {"ok", "nostat", "nodata"}] :
                 Cardinality({ k \in DocKeys : f[k] # "ok" }) <= 1 } }

Init ==
  /\ action \in {"print", "copy", "export", "import"}
  /\ resolve \in (IF action \in {"copy", "import"} THEN Resolves
                  ELSE {NO_CLOBBER})
  /\ argv \in (CASE action = "copy" ->
                      { <<s, d>> : s \in SrcArgs, d \in DstArgs }
                 [] action = "import" ->
                      { <<d>> : d \in { x \in DstArgs : x[1] = "2" } }
                 [] OTHER -> { <<s>> : s \in SrcArgs })
  /\ file \in (IF action = "import" THEN Documents ELSE {None})
  /\ zk \in { [h \in Hosts |-> IF h = HOST1 THEN s ELSE d] :
                s \in (IF action = "import" THEN {EmptyTree} ELSE SrcTrees),
                d \in (IF \/ action = "import"
                          \/ action = "copy" /\ argv[2][1] = "2"
                       THEN DstTrees ELSE {EmptyTree}) }
  /\ pc = "start"
  /\ source_zk = None /\ source_zk_path = None
  /\ dest_zk = None /\ dest_zk_path = None
  /\ cur = None
  /\ stack = << >>
  /\ znode = None
  /\ response = ""
  /\ znode_dict = << >>
  /\ pending = {}
  /\ visited = << >>
  /\ examined = << >>
  /\ writes = << >>
  /\ zk0 = zk
  /\ deletes = 0
  /\ missed = None
  /\ exported = None


\* ---------------------------------------------------------------- actions
hist == <<visited, examined, writes, zk0, deletes, missed, exported>>
params == <<action, resolve, argv, file>>
sessions == <<source_zk, source_zk_path, dest_zk, dest_zk_path>>

\* ZkTreeUtil.run: parse the connect strings and enter the chosen action.
Run ==
  /\ pc = "start"
  /\ LET first == parse_zk_string(argv[1])
         second == IF action = "copy" THEN parse_zk_string(argv[2])
                   ELSE <<TRUE, None, None>>
     IN IF ~first[1] \/ ~second[1]
        THEN /\ pc' = "failed"
             /\ UNCHANGED <<sessions, cur, znode_dict, pending>>
        ELSE IF action = "import"
        THEN \* run_import up to the for loop
             /\ dest_zk' = first[2]
             /\ dest_zk_path' = first[3]
             /\ znode_dict' = json_loads(file)
             /\ pending' = DOMAIN json_loads(file)
             /\ pc' = "import_loop"
             /\ UNCHANGED <<source_zk, source_zk_path, cur>>
        ELSE \* run_copy, run_export, run_print up to the traversal
             /\ source_zk' = first[2]
             /\ source_zk_path' = first[3]
             /\ dest_zk' = second[2]
             /\ dest_zk_path' = second[3]
             /\ cur' = first[3]
             /\ pc' = "call"
             /\ UNCHANGED <<znode_dict, pending>>
  /\ UNCHANGED <<zk, params, stack, znode, response, hist>>

\* Variant: a node that is gone is skipped and the walk goes on.
TraverseGet_skip ==
  /\ pc = "call"
  /\ IF zk_exists(zk[source_zk], cur)
     THEN /\ znode' = [path |-> cur, stat |-> "stat",
                       data |-> zk[source_zk][normpath(cur)]]
          /\ pc' = "process"
          /\ UNCHANGED missed
     ELSE /\ pc' = IF stack = << >> THEN "done" ELSE "loop"
          /\ missed' = cur
          /\ UNCHANGED znode
  /\ UNCHANGED <<zk, params, sessions, cur, stack, response, znode_dict,
                 pending, visited, examined, writes, zk0, deletes, exported>>

\* traverse_zk_tree, line 144-145: read the node; a missing node raises.
TraverseGet ==
  /\ pc = "call"
  /\ IF zk_exists(zk[source_zk], cur)
     THEN /\ znode' = [path |-> cur, stat |-> "stat",
                       data |-> zk[source_zk][normpath(cur)]]
          /\ pc' = "process"
          /\ UNCHANGED missed
     ELSE /\ pc' = "failed"
          /\ missed' = cur
          /\ UNCHANGED znode
  /\ UNCHANGED <<zk, params, sessions, cur, stack, response, znode_dict,
                 pending, visited, examined, writes, zk0, deletes, exported>>

\* Where the run goes on after process_znode returned.
AfterProcess == IF action = "import" THEN "import_loop" ELSE "children"

\* process_znode_print
ProcessPrint ==
  /\ pc = "process" /\ action = "print"
  /\ visited' = Append(visited, znode)
  /\ pc' = AfterProcess
  /\ UNCHANGED <<zk, params, sessions, cur, stack, znode, response,
                 znode_dict, pending, examined, writes, zk0, deletes, missed,
                 exported>>

\* process_znode_write_dict
ProcessWriteDict ==
  /\ pc = "process" /\ action = "export"
  /\ visited' = Append(visited, znode)
  /\ znode_dict' = write_dict(znode_dict, znode)
  /\ pc' = AfterProcess
  /\ UNCHANGED <<zk, params, sessions, cur, stack, znode, response, pending,
                 examined, writes, zk0, deletes, missed, exported>>

\* dest_zk_client.set(dest_znode_path, znode.data)
DoSet(dest_znode_path) ==
  /\ zk' = [zk EXCEPT ![dest_zk] = zk_set(@, dest_znode_path, znode.data)]
  /\ writes' = Append(writes, [op |-> "set", path |-> normpath(dest_znode_path),
                               data |-> znode.data])

\* dest_zk_client.create(dest_znode_path, znode.data, makepath=True)
DoCreate(dest_znode_path) ==
  /\ zk' = [zk EXCEPT ![dest_zk] = zk_create(@, dest_znode_path, znode.data)]
  /\ writes' = Append(writes, [op |-> "create",
                               path |-> normpath(dest_znode_path),
                               data |-> znode.data])

\* Variant: only the part of the source path below the source root is
\* nested under the destination root.
DestZnodePath_rebased ==
  join_paths(dest_zk_path,
             <<SubSeq(znode.path, Len(RStripSlash(source_zk_path)) + 1,
                      Len(znode.path))>>)

\* The destination path of the znode in hand (line 168).
DestZnodePath == join_paths(dest_zk_path, <<znode.path>>)

\* process_znode_write_to_zk, lines 168-170: the exists request and the
\* branch its answer selects.  The set or create request it leads to is a
\* later request: other clients may act in between.
ProcessWriteToZk ==
  /\ pc = "process" /\ action \in {"copy", "import"}
  /\ Depth(DestZnodePath) <= MaxDepth
  /\ visited' = Append(visited, znode)
  /\ examined' = Append(examined, DestZnodePath)
  /\ IF zk_exists(zk[dest_zk], DestZnodePath)
     THEN IF OnExisting(resolve) = "prompt"
          THEN /\ response' = ""
               /\ pc' = "prompt"
          ELSE IF OnExisting(resolve) = "set"
          THEN /\ pc' = "set"
               /\ UNCHANGED response
          ELSE /\ pc' = AfterProcess
               /\ UNCHANGED response
     ELSE /\ pc' = "create"
          /\ UNCHANGED response
  /\ UNCHANGED <<zk, writes, params, sessions, cur, stack, znode, znode_dict,
                 pending, zk0, deletes, missed, exported>>

\* One turn of the while loop (lines 173-175) and, once it ends, the
\* branch of the if/else that follows.
PromptUser(answer) ==
  /\ pc = "prompt"
  /\ response' = answer
  /\ pc' = IF KeepPrompting(answer) THEN "prompt"
           ELSE IF AnswerOverwrites(answer) THEN "set"
           ELSE AfterProcess
  /\ UNCHANGED <<zk, writes, params, sessions, cur, stack, znode, znode_dict,
                 pending, visited, examined, zk0, deletes, missed, exported>>

\* Lines 178 and 184: the set request; it raises when the node is gone.
WriteSet ==
  /\ pc = "set"
  /\ IF zk_exists(zk[dest_zk], DestZnodePath)
     THEN /\ DoSet(DestZnodePath)
          /\ pc' = AfterProcess
     ELSE /\ pc' = "failed"
          /\ UNCHANGED <<zk, writes>>
  /\ UNCHANGED <<params, sessions, cur, stack, znode, response, znode_dict,
                 pending, visited, examined, zk0, deletes, missed, exported>>

\* Line 190: the create request; it raises when the node is there.
WriteCreate ==
  /\ pc = "create"
  /\ IF zk_exists(zk[dest_zk], DestZnodePath)
     THEN /\ pc' = "failed"
          /\ UNCHANGED <<zk, writes>>
     ELSE /\ DoCreate(DestZnodePath)
          /\ pc' = AfterProcess
  /\ UNCHANGED <<params, sessions, cur, stack, znode, response, znode_dict,
                 pending, visited, examined, zk0, deletes, missed, exported>>

\* traverse_zk_tree, line 148: list the children, in any order.
GetChildren ==
  /\ pc = "children"
  /\ IF zk_exists(zk[source_zk], cur)
     THEN /\ \E order \in Perms(zk_get_children(zk[source_zk], cur)) :
               stack' = Append(stack, [path |-> cur, children |-> order])
          /\ pc' = "loop"
          /\ UNCHANGED missed
     ELSE /\ pc' = "failed"
          /\ missed' = cur
          /\ UNCHANGED stack
  /\ UNCHANGED <<zk, params, sessions, cur, znode, response, znode_dict,
                 pending, visited, examined, writes, zk0, deletes, exported>>

\* traverse_zk_tree, lines 148-150: the next child of the innermost loop.
LoopNext ==
  /\ pc = "loop"
  /\ stack # << >>
  /\ LET top == stack[Len(stack)]
     IN /\ top.children # << >>
        /\ cur' = join_paths(top.path, <<Head(top.children)>>)
        /\ stack' = [stack EXCEPT ![Len(stack)].children = Tail(@)]
  /\ pc' = "call"
  /\ UNCHANGED <<zk, params, sessions, znode, response, znode_dict, pending,
                 hist>>

\* Variant: the first call that returns ends the whole walk.
Return_ends_walk ==
  /\ pc = "loop"
  /\ stack # << >>
  /\ stack[Len(stack)].children = << >>
  /\ stack' = << >>
  /\ pc' = IF action = "export" THEN "dump" ELSE "done"
  /\ UNCHANGED <<zk, params, sessions, cur, znode, response, znode_dict,
                 pending, hist>>

\* The innermost loop is exhausted: the call returns.
Return ==
  /\ pc = "loop"
  /\ stack # << >>
  /\ stack[Len(stack)].children = << >>
  /\ stack' = SubSeq(stack, 1, Len(stack) - 1)
  /\ pc' = IF Len(stack) > 1 THEN "loop"
           ELSE IF action = "export" THEN "dump" ELSE "done"
  /\ UNCHANGED <<zk, params, sessions, cur, znode, response, znode_dict,
                 pending, hist>>

\* run_export, lines 226-227.
Dump ==
  /\ pc = "dump"
  /\ file' = json_dumps(znode_dict)
  /\ pc' = "done"
  /\ UNCHANGED <<zk, action, resolve, argv, sessions, cur, stack, znode,
                 response, znode_dict, pending, hist>>

\* run_import, lines 214-216: the next item of the dict, in any order.
ImportNext ==
  /\ pc = "import_loop"
  /\ \E path \in pending :
       LET znode_val == znode_dict[path]
       IN /\ pending' = pending \ {path}
          /\ IF "stat" \in DOMAIN znode_val /\ "data" \in DOMAIN znode_val
             THEN /\ znode' = [path |-> path, stat |-> znode_val.stat,
                               data |-> PyStr(znode_val.data)]
                  /\ pc' = "process"
             ELSE /\ pc' = "failed"
                  /\ UNCHANGED znode
  /\ UNCHANGED <<zk, params, sessions, cur, stack, response, znode_dict,
                 hist>>

\* run_import, line 217: the dict is exhausted.
ImportDone ==
  /\ pc = "import_loop"
  /\ pending = {}
  /\ pc' = "done"
  /\ UNCHANGED <<zk, params, sessions, cur, stack, znode, response,
                 znode_dict, pending, hist>>

\* Another client deletes a node of the source instance, with its subtree,
\* between any two requests of the walk, a prompt included.
ExternalDelete(path) ==
  /\ action \in {"print", "copy", "export"}
  /\ pc \in {"call", "process", "prompt", "set", "create", "children",
            "loop"}
  /\ deletes < MaxDeletes
  /\ path \in DOMAIN zk[source_zk] \ {ROOT}
  /\ zk' = [zk EXCEPT ![source_zk] =
              [q \in { r \in DOMAIN @ : r # path /\ path \notin Ancestors(r) }
                 |-> @[q]]]
  /\ deletes' = deletes + 1
  /\ UNCHANGED <<params, sessions, pc, cur, stack, znode, response,
                 znode_dict, pending, visited, examined, writes, zk0, missed,
                 exported>>

\* The tool is run again to import the file an export has just written,
\* into the empty second instance under the root that was exported.
RunImportOfExport ==
  /\ pc = "done" /\ action = "export"
  /\ deletes = 0
  /\ action' = "import"
  /\ \E r \in Resolves : resolve' = r
  /\ argv' = <<HOST2 \o source_zk_path>>
  /\ exported' = <<zk[source_zk], source_zk_path>>
  /\ pc' = "start"
  /\ visited' = << >> /\ examined' = << >> /\ writes' = << >>
  /\ zk0' = zk
  /\ znode_dict' = << >>
  /\ UNCHANGED <<zk, file, sessions, cur, stack, znode, response, pending,
                 deletes, missed>>

Next ==
  \/ Run
  \/ TraverseGet
  \/ ProcessPrint
  \/ ProcessWriteDict
  \/ ProcessWriteToZk
  \/ \E answer \in Answers : PromptUser(answer)
  \/ WriteSet
  \/ WriteCreate
  \/ GetChildren
  \/ LoopNext
  \/ Return
  \/ Dump
  \/ ImportNext
  \/ ImportDone
  \/ \E path \in DOMAIN SrcFull : ExternalDelete(path)
  \/ RunImportOfExport

Spec == Init /\ [][Next]_vars


\* ----------------------------------------------------------------- claims
\* The nodes of a tree at or below a root.
Subtree(tree, root) ==
  { p \in DOMAIN tree : p = normpath(root) \/ normpath(root) \in Ancestors(p) }

VisitedPaths == { visited[i].path : i \in 1..Len(visited) }

Walking == action \in {"print", "copy", "export"} /\ source_zk \in Hosts

\* Nothing has changed the source instance since the action started.
SourceUnmutated == deletes = 0 /\ zk[source_zk] = zk0[source_zk]

\* The text the whole source path makes when it is nested under the
\* destination root.
Nested(p) == normpath(dest_zk_path \o p)

\* C4: on a source tree that is not mutated during the walk, the visitor is
\* called at most once per path, every path but the root is visited after its
\* parent, and when the walk has returned the visited paths are exactly the
\* paths at or below the root, whatever the order children are listed in.
C4_VisitOnceParentFirst ==
  (Walking /\ SourceUnmutated /\ pc # "failed") =>
    /\ \A i, j \in 1..Len(visited) :
         i < j => visited[i].path # visited[j].path
    /\ \A i \in 1..Len(visited) :
         visited[i].path # source_zk_path =>
           \E j \in 1..(i - 1) : visited[j].path = ParentOf(visited[i].path)
    /\ pc \in {"dump", "done"} =>
         VisitedPaths = Subtree(zk0[source_zk], source_zk_path)

\* A walk over the whole five-node tree has returned, and it took /b
\* before /a.
C4_Witness ==
  /\ action = "print" /\ pc = "done" /\ SourceUnmutated
  /\ Len(visited) = 5
  /\ visited[2].path = <<"/", "b">>

\* C5: a copy never walks anything but the finite tree it started on: every
\* path it visits was a node of the source instance when the copy started,
\* and none is visited twice, so the walk ends after at most as many visits
\* as that tree has nodes.
C5_WalkBoundedBySourceTree ==
  (action = "copy" /\ source_zk \in Hosts /\ deletes = 0) =>
    /\ \A i \in 1..Len(visited) :
         normpath(visited[i].path) \in DOMAIN zk0[source_zk]
    /\ \A i, j \in 1..Len(visited) :
         i < j => visited[i].path # visited[j].path
    /\ Len(visited) <= Cardinality(DOMAIN zk0[source_zk])


\* Some entry of the loaded document lacks its 'stat' or its 'data'.
Malformed(dict) ==
  \E k \in DOMAIN dict :
    "stat" \notin DOMAIN dict[k] \/ "data" \notin DOMAIN dict[k]

Importing == action = "import" /\ dest_zk \in Hosts

\* C1: an import of a document in which an entry lacks 'stat' or 'data'
\* writes nothing: at every point of the run, and after it has failed, the
\* destination tree is the tree the import started on.
C1_MalformedImportWritesNothing ==
  (Importing /\ Malformed(znode_dict)) => zk[dest_zk] = zk0[dest_zk]

\* C2: when a run has exported a tree and a second run has imported the
\* written file into the empty instance under the same root, every exported
\* node's payload is found at the node's own path in the destination.
C2_RoundTripReproducesPayloads ==
  (Importing /\ exported # None /\ pc = "done") =>
    \A p \in Subtree(exported[1], exported[2]) :
      /\ p \in DOMAIN zk[dest_zk]
      /\ zk[dest_zk][p] = exported[1][p]

\* C3: while the user is prompted about an existing destination node, an
\* answer other than y, Y, n, N prompts again; y or Y ends the prompting
\* with the decision to overwrite, so that the set request comes next; n or
\* N ends it with the node skipped; and the set request that follows an
\* overwrite decision leaves the source payload at the destination.
C3_PromptDecides ==
  [][ /\ (pc = "prompt" /\ deletes' = deletes) =>
           /\ zk' = zk
           /\ response' \notin {"y", "Y", "n", "N"} => pc' = "prompt"
           /\ response' \in {"y", "Y"} => pc' = "set"
           /\ response' \in {"n", "N"} => pc' = AfterProcess
      /\ (pc = "set" /\ pc' = AfterProcess) =>
           zk'[dest_zk][normpath(DestZnodePath)] = znode.data ]_vars


Writing == action \in {"copy", "import"} /\ dest_zk \in Hosts

\* No other client has deleted anything on the destination instance.
DestUndisturbed == deletes = 0 \/ dest_zk # source_zk

\* C6: under NO_CLOBBER every node the destination had when the copy or
\* import started is still there with the payload it had, and every write is
\* the creation of a path that was absent then.
C6_NoClobberKeepsExisting ==
  (Writing /\ resolve = NO_CLOBBER /\ DestUndisturbed) =>
    /\ \A p \in DOMAIN zk0[dest_zk] :
         p \in DOMAIN zk[dest_zk] /\ zk[dest_zk][p] = zk0[dest_zk][p]
    /\ \A k \in 1..Len(writes) :
         writes[k].op = "create" /\ writes[k].path \notin DOMAIN zk0[dest_zk]

\* The copy of /a = '1', /a/b = '2' under /b, where /b/a/b held 'old', is
\* done: /b/a/b was examined and kept, /b/a was created.
C6_Witness ==
  /\ action = "copy" /\ resolve = NO_CLOBBER /\ pc = "done"
  /\ dest_zk = HOST2 /\ dest_zk_path = <<"/", "b", "/">>
  /\ source_zk_path = <<"/", "a">>
  /\ \E i \in 1..Len(examined) :
       /\ normpath(examined[i]) = <<"/", "b", "/", "a", "/", "b">>
       /\ normpath(examined[i]) \in DOMAIN zk0[dest_zk]
  /\ zk[dest_zk][<<"/", "b", "/", "a", "/", "b">>] = "old"
  /\ \E k \in 1..Len(writes) : writes[k].op = "create"

\* The visited nodes whose handling by process_znode_write_to_zk is over.
Handled ==
  1..(IF pc \in {"prompt", "set", "create"} THEN Len(visited) - 1
      ELSE Len(visited))

\* C7: a copy examines, for the i-th visited node p, the path made of the
\* whole of p under the destination root, and nothing else; it writes only
\* at such paths, with the payload of the node; whatever the policy, the
\* path of a handled node exists afterwards, and the only other nodes the
\* destination gains are ancestors of such paths; after a completed copy
\* into a destination that had none of these paths, each holds the payload
\* of its source node.
C7_CopyNestsWholeSourcePath ==
  (action = "copy" /\ dest_zk \in Hosts /\ DestUndisturbed) =>
    /\ Len(examined) = Len(visited)
    /\ \A i \in 1..Len(visited) :
         normpath(examined[i]) = Nested(visited[i].path)
    /\ \A k \in 1..Len(writes) :
         \E i \in 1..Len(visited) :
           /\ writes[k].path = Nested(visited[i].path)
           /\ writes[k].data = visited[i].data
    /\ \A i \in Handled : Nested(visited[i].path) \in DOMAIN zk[dest_zk]
    /\ \A q \in DOMAIN zk[dest_zk] \ DOMAIN zk0[dest_zk] :
         \E i \in 1..Len(visited) :
           \/ q = Nested(visited[i].path)
           \/ q \in Ancestors(Nested(visited[i].path))
    /\ ( /\ pc = "done"
         /\ \A i \in 1..Len(visited) :
              Nested(visited[i].path) \notin DOMAIN zk0[dest_zk] ) =>
         \A i \in 1..Len(visited) :
           zk[dest_zk][Nested(visited[i].path)] = visited[i].data

\* A copy of the three nodes at and below /a into the other instance under
\* /b, which had none of their paths, is done, under NO_CLOBBER.
C7_Witness ==
  /\ action = "copy" /\ pc = "done" /\ resolve = NO_CLOBBER
  /\ dest_zk = HOST2 /\ dest_zk_path = <<"/", "b", "/">>
  /\ source_zk_path = <<"/", "a">>
  /\ Len(visited) = 3
  /\ \A i \in 1..Len(visited) :
       Nested(visited[i].path) \notin DOMAIN zk0[dest_zk]
  /\ zk[dest_zk][<<"/", "b", "/", "a", "/", "b">>] = "2"


\* The payload the last write at a path left there.
LastWritten(path) ==
  LET k == CHOOSE n \in 1..Len(writes) :
             /\ writes[n].path = path
             /\ \A m \in (n + 1)..Len(writes) : writes[m].path # path
  IN writes[k].data

\* C8: when a read of the walk finds no node at the path it was given (a
\* child deleted since its parent listed it), the run fails in that very
\* step, which visits nothing and writes nothing; once the run has failed no
\* further visit or write happens and it stays failed; and whatever was
\* written at the destination before the failure is still there.
C8_FailsAtMissingNode ==
  /\ [][ /\ (missed' # None /\ missed = None) =>
              /\ pc' = "failed"
              /\ visited' = visited /\ writes' = writes /\ zk' = zk
         /\ ( /\ Walking /\ pc = "call" /\ pc' # "call"
              /\ normpath(cur) \notin DOMAIN zk[source_zk] ) =>
              /\ pc' = "failed" /\ missed' = cur
              /\ visited' = visited /\ writes' = writes /\ zk' = zk
         /\ pc = "failed" =>
              /\ pc' = "failed"
              /\ visited' = visited /\ writes' = writes /\ zk' = zk ]_vars
  /\ [](( /\ Walking /\ pc = "failed" /\ missed # None
          /\ action = "copy" /\ DestUndisturbed ) =>
          \A k \in 1..Len(writes) :
            /\ writes[k].path \in DOMAIN zk[dest_zk]
            /\ zk[dest_zk][writes[k].path] = LastWritten(writes[k].path))

\* A copy failed at the read of a child that was deleted after its parent
\* had listed it, with writes already made at the destination.
C8_Witness ==
  /\ action = "copy" /\ pc = "failed" /\ deletes = 1
  /\ missed # None /\ missed # source_zk_path
  /\ dest_zk = HOST2
  /\ Len(writes) >= 2
  /\ Len(visited) < Cardinality(Subtree(zk0[source_zk], source_zk_path))

\* C9: an export of a source tree that nothing mutates writes a document
\* with one entry for each path at or below the root and no other, each
\* under its node's path and with its node's payload, the keys in strictly
\* increasing order; and no instance has been written.
C9_ExportDocument ==
  (action = "export" /\ source_zk \in Hosts) =>
    /\ zk = zk0 \/ deletes > 0
    /\ writes = << >>
    /\ (pc = "done" /\ SourceUnmutated) =>
         LET tree == zk0[source_zk]
             nodes == Subtree(tree, source_zk_path)
         IN /\ Len(file) = Cardinality(nodes)
            /\ { file[i][1] : i \in 1..Len(file) } = nodes
            /\ \A i \in 1..Len(file) :
                 file[i][2].data = <<"string", tree[file[i][1]]>>
            /\ \A i, j \in 1..Len(file) :
                 i < j => StrLess(file[i][1], file[j][1])

\* The export of the whole five-node tree is written, after a walk that
\* took /b before /a and /a/b before /a/a.
C9_Witness ==
  /\ action = "export" /\ pc = "done" /\ SourceUnmutated
  /\ Len(file) = 5
  /\ visited[2].path = <<"/", "b">>
  /\ visited[4].path = <<"/", "a", "/", "b">>
  /\ file[2][1] = <<"/", "a">>

\* No two keys of the document name the same destination path.
DistinctDestinations ==
  \A k1, k2 \in DOMAIN znode_dict :
    k1 # k2 => Nested(k1) # Nested(k2)

\* C10: an import never removes a destination node; and a completed import
\* under OVERWRITE of a document whose keys name distinct destination paths
\* leaves at each key's destination path the payload recorded under the key,
\* in whatever order the entries were taken and whatever the destination
\* held.
C10_OverwriteImportOrderFree ==
  Importing =>
    /\ DOMAIN zk0[dest_zk] \subseteq DOMAIN zk[dest_zk]
    /\ (resolve = OVERWRITE /\ pc = "done" /\ DistinctDestinations) =>
         \A k \in DOMAIN znode_dict :
           /\ Nested(k) \in DOMAIN zk[dest_zk]
           /\ zk[dest_zk][Nested(k)] = znode_dict[k].data[2]

\* An import under OVERWRITE is done that took /a/b first, which created
\* the missing /a on the way, and /a after it.
C10_Witness ==
  /\ Importing /\ resolve = OVERWRITE /\ pc = "done"
  /\ exported = None
  /\ dest_zk_path = ROOT
  /\ <<"/", "a">> \notin DOMAIN zk0[dest_zk]
  /\ Len(visited) = 2
  /\ visited[1].path = <<"/", "a", "/", "b">>
  /\ visited[2].path = <<"/", "a">>
  /\ zk[dest_zk][<<"/", "a">>] = "1"

====
